---- MODULE Spec2Model ----
(***************************************************************************)
(* file-identify: classification of a filesystem entry, a bare filename or *)
(* an interpreter token into a set of tags, and the shebang parser.        *)
(*                                                                         *)
(* Strings and file contents are sequences of bytes (0..255); a tag set is *)
(* a set of TLA+ strings.  Option values are records with a field `some`.  *)
(***************************************************************************)
EXTENDS Integers, Sequences, FiniteSets, TLC

\* ------------------------------------------------------------------------
\* Bytes and strings
\* ------------------------------------------------------------------------

\* The printable ASCII characters in code order, 0x20 .. 0x7E (six of them
\* by name).
Printable ==
  << " ", "!", "dquote", "#", "$", "%", "&", "'", "lparen", "rparen", "star", "+", ",", "-", ".", "/",
     "0", "1", "2", "3", "4", "5", "6", "7", "8", "9", ":", ";", "<", "=", ">", "?",
     "@", "A", "B", "C", "D", "E", "F", "G", "H", "I", "J", "K", "L", "M", "N", "O",
     "P", "Q", "R", "S", "T", "U", "V", "W", "X", "Y", "Z", "[", "backslash", "]", "^", "_",
     "backtick", "a", "b", "c", "d", "e", "f", "g", "h", "i", "j", "k", "l", "m", "n", "o",
     "p", "q", "r", "s", "t", "u", "v", "w", "x", "y", "z", "{", "|", "}", "~" >>

\* The byte of a printable ASCII character.
Ord(c) == 31 + (CHOOSE i \in 1..Len(Printable) : Printable[i] = c)

\* The byte string of a tuple of printable characters.
B(s) == [i \in 1..Len(s) |-> Ord(s[i])]

\* `let x = v` followed by an expression F of x: v is worked out once.
With(v, F(_)) == F(v)

None == [some |-> FALSE]
Some(x) == [some |-> TRUE, v |-> x]

\* s[from..] and s[..to] with 1-based inclusive positions.
Drop(s, n) == SubSeq(s, n + 1, Len(s))
Take(s, n) == SubSeq(s, 1, n)

\* str::split(d): the pieces between the occurrences of byte d (at least one).
RECURSIVE Split(_, _)
Split(s, d) ==
  IF \A i \in 1..Len(s) : s[i] # d
  THEN << s >>
  ELSE With(CHOOSE i \in 1..Len(s) : s[i] = d /\ \A j \in 1..(i - 1) : s[j] # d,
            LAMBDA p : << Take(s, p - 1) >> \o Split(Drop(s, p), d))

\* str::rfind(d): the position of the last occurrence of byte d, 0 when none.
RFind(s, d) ==
  IF \A i \in 1..Len(s) : s[i] # d
  THEN 0
  ELSE CHOOSE i \in 1..Len(s) : s[i] = d /\ \A j \in (i + 1)..Len(s) : s[j] # d

\* str::to_lowercase on ASCII text: A..Z become a..z.
ToLowerByte(b) == IF b >= 65 /\ b <= 90 THEN b + 32 ELSE b
to_lowercase(s) == [i \in 1..Len(s) |-> ToLowerByte(s[i])]

\* The concatenation of a sequence of strings.
RECURSIVE Concat(_)
Concat(ss) == IF ss = << >> THEN << >> ELSE Head(ss) \o Concat(Tail(ss))

\* ------------------------------------------------------------------------
\* Tags (tags.rs)
\* ------------------------------------------------------------------------
DIRECTORY == "directory"
SYMLINK == "symlink"
SOCKET == "socket"
FILE == "file"
EXECUTABLE == "executable"
NON_EXECUTABLE == "non-executable"
TEXT == "text"
BINARY == "binary"

TYPE_TAGS == {DIRECTORY, FILE, SYMLINK, SOCKET}
MODE_TAGS == {EXECUTABLE, NON_EXECUTABLE}
ENCODING_TAGS == {BINARY, TEXT}

\* ------------------------------------------------------------------------
\* Static lookup tables
\* ------------------------------------------------------------------------

\* interpreters.rs: interpreter name -> tags.
INTERPRETERS ==
     (B(<<"a","s","h">>) :> {"shell", "ash"})
  @@ (B(<<"a","w","k">>) :> {"awk"})
  @@ (B(<<"b","a","s","h">>) :> {"shell", "bash"})
  @@ (B(<<"b","a","t","s">>) :> {"shell", "bash", "bats"})
  @@ (B(<<"c","b","s","d">>) :> {"shell", "cbsd"})
  @@ (B(<<"c","s","h">>) :> {"shell", "csh"})
  @@ (B(<<"d","a","s","h">>) :> {"shell", "dash"})
  @@ (B(<<"e","x","p","e","c","t">>) :> {"expect"})
  @@ (B(<<"k","s","h">>) :> {"shell", "ksh"})
  @@ (B(<<"n","o","d","e">>) :> {"javascript"})
  @@ (B(<<"n","o","d","e","j","s">>) :> {"javascript"})
  @@ (B(<<"p","e","r","l">>) :> {"perl"})
  @@ (B(<<"p","h","p">>) :> {"php"})
  @@ (B(<<"p","h","p","7">>) :> {"php", "php7"})
  @@ (B(<<"p","h","p","8">>) :> {"php", "php8"})
  @@ (B(<<"p","y","t","h","o","n">>) :> {"python"})
  @@ (B(<<"p","y","t","h","o","n","2">>) :> {"python", "python2"})
  @@ (B(<<"p","y","t","h","o","n","3">>) :> {"python", "python3"})
  @@ (B(<<"r","u","b","y">>) :> {"ruby"})
  @@ (B(<<"s","h">>) :> {"shell", "sh"})
  @@ (B(<<"t","c","s","h">>) :> {"shell", "tcsh"})
  @@ (B(<<"z","s","h">>) :> {"shell", "zsh"})

\* interpreters::get_interpreter_tags: the entry of the table, empty on a miss.
get_interpreter_tags(name) ==
  IF name \in DOMAIN INTERPRETERS THEN INTERPRETERS[name] ELSE {}

\* extensions::NAME_TAGS: special filename or filename stem -> tags.
NAME_TAGS ==
     (B(<<"D","o","c","k","e","r","f","i","l","e">>) :> {"dockerfile", TEXT})
  @@ (B(<<"R","E","A","D","M","E">>) :> {"plain-text", TEXT})
  @@ (B(<<"s","e","t","u","p",".","c","f","g">>) :> {"ini", TEXT})
  @@ (B(<<"C","a","r","g","o",".","t","o","m","l">>) :> {"cargo", "toml", TEXT})
  @@ (B(<<".","g","i","t","i","g","n","o","r","e">>) :> {"gitignore", TEXT})

\* extensions::EXTENSION_TAGS: lower-cased extension -> tags, with an
\* encoding tag.
EXTENSION_TAGS ==
     (B(<<"p","y">>) :> {"python", TEXT})
  @@ (B(<<"c","f","g">>) :> {TEXT})
  @@ (B(<<"m","d">>) :> {"markdown", TEXT})
  @@ (B(<<"t","o","m","l">>) :> {"toml", TEXT})
  @@ (B(<<"j","p","g">>) :> {"image", "jpeg", BINARY})
  @@ (B(<<"g","z">>) :> {"gzip", BINARY})

\* extensions::EXTENSIONS_NEED_BINARY_CHECK_TAGS: lower-cased extension ->
\* tags, without an encoding tag.
EXTENSIONS_NEED_BINARY_CHECK_TAGS ==
     (B(<<"p","l","i","s","t">>) :> {"plist"})

get_name_tags(part) ==
  IF part \in DOMAIN NAME_TAGS THEN NAME_TAGS[part] ELSE {}

get_extension_tags(ext) ==
  IF ext \in DOMAIN EXTENSION_TAGS THEN EXTENSION_TAGS[ext] ELSE {}

get_extensions_need_binary_check_tags(ext) ==
  IF ext \in DOMAIN EXTENSIONS_NEED_BINARY_CHECK_TAGS
  THEN EXTENSIONS_NEED_BINARY_CHECK_TAGS[ext] ELSE {}

\* ------------------------------------------------------------------------
\* std::path::Path on byte strings (Unix)
\* ------------------------------------------------------------------------
Slash == B(<<"/">>)[1]
Dot == B(<<".">>)[1]

\* The subsequence of ss at the positions that satisfy keep, in order.
RECURSIVE SelectIdx(_, _, _)
SelectIdx(ss, keep(_), i) ==
  IF i > Len(ss) THEN << >>
  ELSE (IF keep(i) THEN << ss[i] >> ELSE << >>) \o SelectIdx(ss, keep, i + 1)

\* Path::components without the root: empty segments are dropped, and "."
\* is kept only as the leading component.
PathComponents(p) ==
  With(Split(p, Slash), LAMBDA segs :
    SelectIdx(segs, LAMBDA i : segs[i] # << >> /\ ~(segs[i] = << Dot >> /\ i > 1), 1))

\* Path::file_name: the last component when it is a normal one.
PathFileName(p) ==
  With(PathComponents(p), LAMBDA comps :
    IF comps = << >> THEN None
    ELSE With(comps[Len(comps)], LAMBDA last :
           IF last = << Dot >> \/ last = << Dot, Dot >> THEN None ELSE Some(last)))

\* Path::extension: the text after the last dot of the file name, when the
\* file name has a dot that is not its first byte.
PathExtension(p) ==
  With(PathFileName(p), LAMBDA fn :
    IF ~fn.some THEN None
    ELSE With(RFind(fn.v, Dot), LAMBDA pos :
           IF pos = 0 \/ pos = 1 THEN None ELSE Some(Drop(fn.v, pos))))

\* ------------------------------------------------------------------------
\* UTF-8 and char predicates
\* ------------------------------------------------------------------------
IsCont(b) == b >= 128 /\ b <= 191

\* The length of the well-formed UTF-8 sequence that starts at s[i], 0 when
\* the bytes there are ill-formed (core::str::from_utf8).
Utf8SeqLen(s, i) ==
  LET b == s[i]
      n == Len(s)
      cont(k) == i + k <= n /\ IsCont(s[i + k])
      second(lo, hi) == i + 1 <= n /\ s[i + 1] >= lo /\ s[i + 1] <= hi
  IN  IF b < 128 THEN 1
      ELSE IF b >= 194 /\ b <= 223 THEN (IF cont(1) THEN 2 ELSE 0)
      ELSE IF b = 224 THEN (IF second(160, 191) /\ cont(2) THEN 3 ELSE 0)
      ELSE IF (b >= 225 /\ b <= 236) \/ b = 238 \/ b = 239
           THEN (IF cont(1) /\ cont(2) THEN 3 ELSE 0)
      ELSE IF b = 237 THEN (IF second(128, 159) /\ cont(2) THEN 3 ELSE 0)
      ELSE IF b = 240 THEN (IF second(144, 191) /\ cont(2) /\ cont(3) THEN 4 ELSE 0)
      ELSE IF b >= 241 /\ b <= 243 THEN (IF cont(1) /\ cont(2) /\ cont(3) THEN 4 ELSE 0)
      ELSE IF b = 244 THEN (IF second(128, 143) /\ cont(2) /\ cont(3) THEN 4 ELSE 0)
      ELSE 0

\* The code point of the well-formed k-byte sequence at s[i].
CodePoint(s, i, k) ==
  IF k = 1 THEN s[i]
  ELSE IF k = 2 THEN (s[i] - 192) * 64 + (s[i + 1] - 128)
  ELSE IF k = 3 THEN (s[i] - 224) * 4096 + (s[i + 1] - 128) * 64 + (s[i + 2] - 128)
  ELSE (s[i] - 240) * 262144 + (s[i + 1] - 128) * 4096
       + (s[i + 2] - 128) * 64 + (s[i + 3] - 128)

\* String::from_utf8 from position i on: Some(chars) or None.  A run of
\* ASCII bytes is taken in one step.
RECURSIVE Utf8From(_, _)
Utf8From(s, i) ==
  IF \A j \in i..Len(s) : s[j] < 128 THEN Some(SubSeq(s, i, Len(s)))
  ELSE IF s[i] < 128
  THEN With({j \in i..Len(s) : s[j] >= 128}, LAMBDA high :
         With(CHOOSE j \in high : \A k \in high : j <= k, LAMBDA n :
           With(Utf8From(s, n), LAMBDA rest :
             IF rest.some THEN Some(SubSeq(s, i, n - 1) \o rest.v) ELSE None)))
  ELSE With(Utf8SeqLen(s, i), LAMBDA k :
         IF k = 0 THEN None
         ELSE With(Utf8From(s, i + k), LAMBDA rest :
                IF rest.some THEN Some(<< CodePoint(s, i, k) >> \o rest.v) ELSE None))

from_utf8(s) == Utf8From(s, 1)

\* OsStr::to_str: Some exactly when the bytes are valid UTF-8.
to_str(s) == IF from_utf8(s).some THEN Some(s) ELSE None

\* char::is_whitespace (Unicode White_Space).
is_whitespace(c) ==
  \/ (c >= 9 /\ c <= 13) \/ c = 32 \/ c = 133 \/ c = 160 \/ c = 5760
  \/ (c >= 8192 /\ c <= 8202) \/ c = 8232 \/ c = 8233 \/ c = 8239
  \/ c = 8287 \/ c = 12288

is_ascii(c) == c <= 127

\* char::is_control (general category Cc).
is_control(c) == c <= 31 \/ (c >= 127 /\ c <= 159)

\* str::trim: without the leading and trailing whitespace chars.
trim(cs) ==
  With({i \in 1..Len(cs) : ~is_whitespace(cs[i])}, LAMBDA keep :
    IF keep = {} THEN << >>
    ELSE SubSeq(cs, CHOOSE i \in keep : \A j \in keep : i <= j,
                    CHOOSE i \in keep : \A j \in keep : i >= j))

\* str::split_whitespace: the maximal runs of non-whitespace chars.
RECURSIVE split_whitespace(_)
split_whitespace(cs) ==
  With(trim(cs), LAMBDA t :
    IF t = << >> THEN << >>
    ELSE IF \A i \in 1..Len(t) : ~is_whitespace(t[i]) THEN << t >>
    ELSE With(CHOOSE i \in 1..Len(t) :
                is_whitespace(t[i]) /\ \A j \in 1..(i - 1) : ~is_whitespace(t[j]),
              LAMBDA p : << Take(t, p - 1) >> \o split_whitespace(Drop(t, p))))

\* ------------------------------------------------------------------------
\* Filename and interpreter resolution (lib.rs)
\* ------------------------------------------------------------------------

\* The name lookup with the last matching candidate winning.
name_lookup_last_hit(filename) ==
  With(<< filename >> \o Split(filename, Dot), LAMBDA parts :
    With({i \in 1..Len(parts) : get_name_tags(parts[i]) # {}}, LAMBDA hits :
      IF hits = {} THEN {}
      ELSE get_name_tags(parts[CHOOSE i \in hits : \A j \in hits : i >= j])))

\* The tags of the first candidate that is a key of the name table; the
\* candidates are the whole filename, then the pieces of filename.split('.').
name_lookup(filename) ==
  With(<< filename >> \o Split(filename, Dot), LAMBDA parts :
    With({i \in 1..Len(parts) : get_name_tags(parts[i]) # {}}, LAMBDA hits :
      IF hits = {} THEN {}
      ELSE get_name_tags(parts[CHOOSE i \in hits : \A j \in hits : i <= j])))

\* The extension lookup without lower-casing.
extension_lookup_case_sensitive(filename) ==
  With(PathExtension(filename), LAMBDA ext :
    IF ~ext.some THEN {}
    ELSE With(get_extension_tags(ext.v), LAMBDA ext_tags :
           IF ext_tags # {} THEN ext_tags
           ELSE get_extensions_need_binary_check_tags(ext.v)))

\* The tags of the lower-cased extension: the extension table, else the
\* binary-check-only table.
extension_lookup(filename) ==
  With(PathExtension(filename), LAMBDA ext :
    IF ~ext.some THEN {}
    ELSE With(to_lowercase(ext.v), LAMBDA ext_lower :
           With(get_extension_tags(ext_lower), LAMBDA ext_tags :
             IF ext_tags # {} THEN ext_tags
             ELSE get_extensions_need_binary_check_tags(ext_lower))))

\* tags_from_filename with the extension consulted only when no special
\* name matched.
tags_from_filename_name_only(filename) ==
  With(name_lookup(filename), LAMBDA name_tags :
    IF name_tags # {} THEN name_tags ELSE extension_lookup(filename))

tags_from_filename(filename) ==
  name_lookup(filename) \cup extension_lookup(filename)

\* The loop of tags_from_interpreter: look the current string up, on a miss
\* cut it at its last dot and retry.
\* The lookup of tags_from_interpreter without version stripping.
interpreter_loop_no_strip(current) == get_interpreter_tags(current)

RECURSIVE interpreter_loop(_)
interpreter_loop(current) ==
  IF current = << >> THEN {}
  ELSE With(get_interpreter_tags(current), LAMBDA tags :
         IF tags # {} THEN tags
         ELSE With(RFind(current, Dot), LAMBDA pos :
                IF pos = 0 THEN {} ELSE interpreter_loop(Take(current, pos - 1))))

\* tags_from_interpreter on the token as given, directories included.
tags_from_interpreter_whole_token(interpreter) == interpreter_loop(interpreter)

tags_from_interpreter(interpreter) ==
  With(Split(interpreter, Slash), LAMBDA segs :
    With(segs[Len(segs)], LAMBDA interpreter_name :
      interpreter_loop(interpreter_name)))

\* ------------------------------------------------------------------------
\* Results, readers and the filesystem
\* ------------------------------------------------------------------------
Ok(x) == [ok |-> TRUE, v |-> x]
Err(e) == [ok |-> FALSE, err |-> e]

IoError == [kind |-> "IoError"]
InvalidUtf8 == [kind |-> "InvalidUtf8"]

\* A failed stat reported as a plain I/O error.
PathNotFound_as_io(path) == [kind |-> "IoError", path |-> path]

PathNotFound(path) == [kind |-> "PathNotFound", path |-> path]

\* Bitwise and of two naturals.
RECURSIVE BitAnd(_, _)
BitAnd(a, b) ==
  IF a = 0 \/ b = 0 THEN 0
  ELSE (a % 2) * (b % 2) + 2 * BitAnd(a \div 2, b \div 2)

\* The execute bits 0o111.
ExecBits == 64 + 8 + 1

\* A filesystem entry is a record
\*   kind    : what the link-aware metadata says, or "missing";
\*   mode    : the permission bits;
\*   path    : the path given to the call (a byte string);
\*   content : the bytes of the file (for a symlink, of its target);
\*   io      : "ok", or the filesystem operation that fails on this entry:
\*             "meta_fail" (the link-following stat, e.g. a dangling link),
\*             "open_fail" (e.g. no read permission), "read_fail".

\* fs::symlink_metadata.
symlink_metadata(e) ==
  IF e.kind = "missing" THEN None ELSE Some([kind |-> e.kind, mode |-> e.mode])

\* fs::metadata (follows links).
fs_metadata(e) ==
  IF e.kind = "missing" \/ e.io = "meta_fail" THEN None
  ELSE Some([kind |-> IF e.kind = "symlink" THEN "file" ELSE e.kind, mode |-> e.mode])

\* fs::File::open: a reader over the content, or an error.
file_open(e) ==
  IF e.kind = "missing" \/ e.io \in {"meta_fail", "open_fail"} THEN None
  ELSE Some([data |-> e.content, readOk |-> (e.io # "read_fail" /\ e.kind # "dir")])

\* ------------------------------------------------------------------------
\* Content sniffer (lib.rs is_text, file_is_text)
\* ------------------------------------------------------------------------
SniffLen == 1024

text_chars == {7, 8, 9, 10, 11, 12, 13, 27} \cup (32..126) \cup (128..255)

Min(a, b) == IF a <= b THEN a ELSE b

\* is_text looking at the whole source, not at one read of SniffLen bytes.
is_text_whole_source(reader) ==
  IF ~reader.readOk THEN Err(IoError)
  ELSE Ok(\A i \in 1..Len(reader.data) : reader.data[i] \in text_chars)

is_text(reader) ==
  IF ~reader.readOk THEN Err(IoError)
  ELSE With(Min(Len(reader.data), SniffLen), LAMBDA bytes_read :
         Ok(\A i \in 1..bytes_read : reader.data[i] \in text_chars))

\* file_is_text that takes a file it cannot open or read for a binary one.
file_is_text_unreadable_is_binary(e) ==
  With(file_open(e), LAMBDA file :
    IF ~file.some THEN [res |-> Ok(FALSE), ops |-> << "open" >>]
    ELSE [res |-> (IF file.v.readOk THEN is_text(file.v) ELSE Ok(FALSE)),
          ops |-> << "open", "read" >>])

\* The result of file_is_text and the filesystem operations it performs.
file_is_text(e) ==
  With(file_open(e), LAMBDA file :
    IF ~file.some THEN [res |-> Err(IoError), ops |-> << "open" >>]
    ELSE [res |-> is_text(file.v), ops |-> << "open", "read" >>])

\* ------------------------------------------------------------------------
\* Shebang parser (lib.rs parse_shebang, parse_shebang_from_file)
\* ------------------------------------------------------------------------
ShebangLimit == 1024
LF == 10
CR == 13
Tab == 9

\* read_until that does not stop at the line feed: the whole stream.
read_until_lf_whole_stream(data) == data

\* BufRead::read_until(b'\n'): the bytes up to and including the first line
\* feed, all of them when there is none.
read_until_lf(data) ==
  IF \A i \in 1..Len(data) : data[i] # LF THEN data
  ELSE Take(data, CHOOSE i \in 1..Len(data) :
                    data[i] = LF /\ \A j \in 1..(i - 1) : data[j] # LF)

\* Vec::pop when the line ends with byte b.
strip_last(line, b) ==
  IF Len(line) > 0 /\ line[Len(line)] = b THEN Take(line, Len(line) - 1) ELSE line

ShebangMarker == B(<<"#","!">>)
UsrBinEnv == B(<<"/","u","s","r","/","b","i","n","/","e","n","v">>)
DashS == B(<<"-","S">>)

\* env_unwrap that takes -S for the program to run.
env_unwrap_keep_dash_s(parts) ==
  IF parts[1] = UsrBinEnv
  THEN (IF Len(parts) = 1 THEN << >> ELSE Drop(parts, 1))
  ELSE parts

\* The command of a non-empty token list: /usr/bin/env and its -S unwrapped.
env_unwrap(parts) ==
  IF parts[1] = UsrBinEnv
  THEN IF Len(parts) = 1 THEN << >>
       ELSE IF Len(parts) >= 2 /\ parts[2] = DashS
            THEN (IF Len(parts) > 2 THEN Drop(parts, 2) ELSE << >>)
            ELSE Drop(parts, 1)
  ELSE parts

\* The number of bytes read_until puts into first_line_bytes (nothing is
\* counted for a failed read).
first_line_read(reader) ==
  IF reader.readOk THEN Len(read_until_lf(reader.data)) ELSE 0

\* The first line as parse_shebang holds it before decoding: read, stripped
\* of the line terminator, cut to ShebangLimit bytes.
shebang_first_line(data) ==
  With(strip_last(strip_last(read_until_lf(data), LF), CR), LAMBDA stripped :
    IF Len(stripped) > ShebangLimit THEN Take(stripped, ShebangLimit) ELSE stripped)

\* parse_shebang reporting a first line that is not UTF-8 as an error.
parse_shebang_utf8_error(reader) ==
  IF ~reader.readOk THEN Ok(<< >>)
  ELSE IF Len(read_until_lf(reader.data)) = 0 THEN Ok(<< >>)
  ELSE With(shebang_first_line(reader.data), LAMBDA first_line_bytes :
    IF Len(first_line_bytes) < 2 \/ Take(first_line_bytes, 2) # ShebangMarker
    THEN Ok(<< >>)
    ELSE With(from_utf8(first_line_bytes), LAMBDA first_line :
      IF ~first_line.some THEN Err(InvalidUtf8)
      ELSE With(trim(Drop(first_line.v, 2)), LAMBDA shebang_line :
        IF \E i \in 1..Len(shebang_line) :
             \/ ~is_ascii(shebang_line[i])
             \/ (is_control(shebang_line[i]) /\ shebang_line[i] # Tab)
        THEN Ok(<< >>)
        ELSE With(split_whitespace(shebang_line), LAMBDA parts :
               IF parts = << >> THEN Ok(<< >>) ELSE Ok(env_unwrap(parts))))))

parse_shebang(reader) ==
  IF ~reader.readOk THEN Ok(<< >>)
  ELSE IF Len(read_until_lf(reader.data)) = 0 THEN Ok(<< >>)
  ELSE With(shebang_first_line(reader.data), LAMBDA first_line_bytes :
    IF Len(first_line_bytes) < 2 \/ Take(first_line_bytes, 2) # ShebangMarker
    THEN Ok(<< >>)
    ELSE With(from_utf8(first_line_bytes), LAMBDA first_line :
      IF ~first_line.some THEN Ok(<< >>)
      ELSE With(trim(Drop(first_line.v, 2)), LAMBDA shebang_line :
        IF \E i \in 1..Len(shebang_line) :
             \/ ~is_ascii(shebang_line[i])
             \/ (is_control(shebang_line[i]) /\ shebang_line[i] # Tab)
        THEN Ok(<< >>)
        ELSE With(split_whitespace(shebang_line), LAMBDA parts :
               IF parts = << >> THEN Ok(<< >>) ELSE Ok(env_unwrap(parts))))))

\* parse_shebang_from_file without the test of the execute bits.
parse_shebang_from_file_any_mode(e) ==
  With(fs_metadata(e), LAMBDA metadata :
    IF ~metadata.some THEN [res |-> Err(IoError), ops |-> << "metadata" >>]
    ELSE With(file_open(e), LAMBDA file :
           IF ~file.some
           THEN [res |-> Err(IoError), ops |-> << "metadata", "open" >>]
           ELSE [res |-> parse_shebang(file.v),
                 ops |-> << "metadata", "open", "read" >>]))

\* The result of parse_shebang_from_file and the filesystem operations it
\* performs.
parse_shebang_from_file(e) ==
  With(fs_metadata(e), LAMBDA metadata :
    IF ~metadata.some THEN [res |-> Err(IoError), ops |-> << "metadata" >>]
    ELSE IF BitAnd(metadata.v.mode, ExecBits) = 0
         THEN [res |-> Ok(<< >>), ops |-> << "metadata" >>]
         ELSE With(file_open(e), LAMBDA file :
                IF ~file.some
                THEN [res |-> Err(IoError), ops |-> << "metadata", "open" >>]
                ELSE [res |-> parse_shebang(file.v),
                      ops |-> << "metadata", "open", "read" >>]))

\* ------------------------------------------------------------------------
\* File classifier (lib.rs tags_from_path, FileIdentifier)
\* ------------------------------------------------------------------------

\* analyze_file_type without the symlink test: a link is handled as the
\* file it would be if it were followed.
analyze_file_type_no_symlink(metadata) ==
  IF metadata.kind = "dir" THEN Some({DIRECTORY})
  ELSE IF metadata.kind = "socket" THEN Some({SOCKET})
  ELSE None

\* The tag set of a non-regular entry, None for everything else.
analyze_file_type(metadata) ==
  IF metadata.kind = "dir" THEN Some({DIRECTORY})
  ELSE IF metadata.kind = "symlink" THEN Some({SYMLINK})
  ELSE IF metadata.kind = "socket" THEN Some({SOCKET})
  ELSE None

\* analyze_permissions testing the owner's execute bit 0o100 only.
analyze_permissions_owner_only(metadata) == BitAnd(metadata.mode, 64) # 0

analyze_permissions(metadata) == BitAnd(metadata.mode, ExecBits) # 0

\* path.file_name().and_then(|n| n.to_str())
filename_of(path) ==
  With(PathFileName(path), LAMBDA fn : IF fn.some THEN to_str(fn.v) ELSE None)

\* The tags of a shebang command: those of its first token, none when empty.
shebang_tags(res) ==
  IF res.ok /\ res.v # << >> THEN tags_from_interpreter(res.v[1]) ELSE {}

\* What the filename/shebang step leaves behind: its tags, the filesystem
\* operations it performed, whether tags_from_filename ran and whether the
\* shebang parser was called.
Step(tags, ops, named, shebang) ==
  [tags |-> tags, ops |-> ops, named |-> named, shebang |-> shebang]

\* The filename/shebang step without its shebang branch.
analyze_filename_and_shebang_no_shebang(e, is_executable) ==
  With(filename_of(e.path), LAMBDA filename :
    IF ~filename.some THEN Step({}, << >>, FALSE, FALSE)
    ELSE Step(tags_from_filename(filename.v), << >>, TRUE, FALSE))

\* The filename/shebang step of tags_from_path.
analyze_filename_and_shebang(e, is_executable) ==
  With(filename_of(e.path), LAMBDA filename :
    IF ~filename.some THEN Step({}, << >>, FALSE, FALSE)
    ELSE With(tags_from_filename(filename.v), LAMBDA filename_tags :
      IF filename_tags # {} THEN Step(filename_tags, << >>, TRUE, FALSE)
      ELSE IF is_executable
           THEN With(parse_shebang_from_file(e), LAMBDA sb :
                  Step(shebang_tags(sb.res), sb.ops, TRUE, TRUE))
           ELSE Step({}, << >>, TRUE, FALSE)))

\* custom_lookup with the extension as written, not lower-cased.
custom_lookup_case_sensitive(cfg, filename) ==
  IF ~cfg.custom_extensions.some THEN None
  ELSE With(PathExtension(filename), LAMBDA ext :
         IF ~ext.some THEN None
         ELSE IF ext.v \in DOMAIN cfg.custom_extensions.v
              THEN Some(cfg.custom_extensions.v[ext.v])
              ELSE None)

\* The entry of the custom extension mapping for the lower-cased extension
\* of the filename, None without a mapping, an extension or an entry.
custom_lookup(cfg, filename) ==
  IF ~cfg.custom_extensions.some THEN None
  ELSE With(PathExtension(filename), LAMBDA ext :
         IF ~ext.some THEN None
         ELSE With(to_lowercase(ext.v), LAMBDA ext_lower :
                IF ext_lower \in DOMAIN cfg.custom_extensions.v
                THEN Some(cfg.custom_extensions.v[ext_lower])
                ELSE None))

\* The configured step with skip_shebang_analysis ignored.
analyze_filename_and_shebang_always_shebang(cfg, e, is_executable) ==
  With(filename_of(e.path), LAMBDA filename :
    IF ~filename.some THEN Step({}, << >>, FALSE, FALSE)
    ELSE With(custom_lookup(cfg, filename.v), LAMBDA custom :
      IF custom.some THEN Step(custom.v, << >>, FALSE, FALSE)
      ELSE With(tags_from_filename(filename.v), LAMBDA filename_tags :
        IF filename_tags # {} THEN Step(filename_tags, << >>, TRUE, FALSE)
        ELSE IF is_executable
             THEN With(parse_shebang_from_file(e), LAMBDA sb :
                    Step(shebang_tags(sb.res), sb.ops, TRUE, TRUE))
             ELSE Step({}, << >>, TRUE, FALSE))))

\* The filename/shebang step of FileIdentifier::identify.
analyze_filename_and_shebang_configured(cfg, e, is_executable) ==
  With(filename_of(e.path), LAMBDA filename :
    IF ~filename.some THEN Step({}, << >>, FALSE, FALSE)
    ELSE With(custom_lookup(cfg, filename.v), LAMBDA custom :
      IF custom.some THEN Step(custom.v, << >>, FALSE, FALSE)
      ELSE With(tags_from_filename(filename.v), LAMBDA filename_tags :
        IF filename_tags # {} THEN Step(filename_tags, << >>, TRUE, FALSE)
        ELSE IF is_executable /\ ~cfg.skip_shebang_analysis
             THEN With(parse_shebang_from_file(e), LAMBDA sb :
                    Step(shebang_tags(sb.res), sb.ops, TRUE, TRUE))
             ELSE Step({}, << >>, TRUE, FALSE))))

\* analyze_content_encoding that sniffs the content whatever tags exist.
analyze_content_encoding_always(e, existing_tags) ==
  With(file_is_text(e), LAMBDA t :
    IF ~t.res.ok THEN [res |-> t.res, ops |-> t.ops]
    ELSE [res |-> Ok(IF t.res.v THEN {TEXT} ELSE {BINARY}), ops |-> t.ops])

\* The encoding tag to add and the filesystem operations performed: nothing
\* when an encoding tag is already present, else the content is sniffed.
analyze_content_encoding(e, existing_tags) ==
  IF existing_tags \cap ENCODING_TAGS # {}
  THEN [res |-> Ok({}), ops |-> << >>]
  ELSE With(file_is_text(e), LAMBDA t :
         IF ~t.res.ok THEN [res |-> t.res, ops |-> t.ops]
         ELSE [res |-> Ok(IF t.res.v THEN {TEXT} ELSE {BINARY}), ops |-> t.ops])

\* What a classification call leaves behind: its result, the filesystem
\* operations it performed in order, and the contribution of the
\* filename/shebang step (None when the step did not run).
Outcome(res, ops, step) == [res |-> res, ops |-> ops, step |-> step]

\* tags_from_path without its content step.
tags_from_path_no_content_step(e) ==
  With(symlink_metadata(e), LAMBDA metadata :
    IF ~metadata.some
    THEN Outcome(Err(PathNotFound(e.path)), << "symlink_metadata" >>, None)
    ELSE With(analyze_file_type(metadata.v), LAMBDA file_type_tags :
      IF file_type_tags.some
      THEN Outcome(Ok(file_type_tags.v), << "symlink_metadata" >>, None)
      ELSE With(analyze_permissions(metadata.v), LAMBDA is_executable :
        With(analyze_filename_and_shebang(e, is_executable), LAMBDA fs :
          Outcome(Ok({FILE} \cup (IF is_executable THEN {EXECUTABLE} ELSE {NON_EXECUTABLE})
                       \cup fs.tags),
                  << "symlink_metadata" >> \o fs.ops, Some(fs))))))

tags_from_path(e) ==
  With(symlink_metadata(e), LAMBDA metadata :
    IF ~metadata.some
    THEN Outcome(Err(PathNotFound(e.path)), << "symlink_metadata" >>, None)
    ELSE With(analyze_file_type(metadata.v), LAMBDA file_type_tags :
      IF file_type_tags.some
      THEN Outcome(Ok(file_type_tags.v), << "symlink_metadata" >>, None)
      ELSE With(analyze_permissions(metadata.v), LAMBDA is_executable :
        With(analyze_filename_and_shebang(e, is_executable), LAMBDA fs :
          With({FILE} \cup (IF is_executable THEN {EXECUTABLE} ELSE {NON_EXECUTABLE})
                 \cup fs.tags, LAMBDA tags :
            With(analyze_content_encoding(e, tags), LAMBDA enc :
              Outcome(IF enc.res.ok THEN Ok(tags \cup enc.res.v) ELSE enc.res,
                      << "symlink_metadata" >> \o fs.ops \o enc.ops,
                      Some(fs))))))))

\* identify_with_config with skip_content_analysis ignored.
identify_with_config_always_content(cfg, e) ==
  With(symlink_metadata(e), LAMBDA metadata :
    IF ~metadata.some
    THEN Outcome(Err(PathNotFound(e.path)), << "symlink_metadata" >>, None)
    ELSE With(analyze_file_type(metadata.v), LAMBDA file_type_tags :
      IF file_type_tags.some
      THEN Outcome(Ok(file_type_tags.v), << "symlink_metadata" >>, None)
      ELSE With(analyze_permissions(metadata.v), LAMBDA is_executable :
        With(analyze_filename_and_shebang_configured(cfg, e, is_executable), LAMBDA fs :
          With({FILE} \cup (IF is_executable THEN {EXECUTABLE} ELSE {NON_EXECUTABLE})
                 \cup fs.tags, LAMBDA tags :
            With(analyze_content_encoding(e, tags), LAMBDA enc :
              Outcome(IF enc.res.ok THEN Ok(tags \cup enc.res.v) ELSE enc.res,
                      << "symlink_metadata" >> \o fs.ops \o enc.ops,
                      Some(fs))))))))

identify_with_config(cfg, e) ==
  With(symlink_metadata(e), LAMBDA metadata :
    IF ~metadata.some
    THEN Outcome(Err(PathNotFound(e.path)), << "symlink_metadata" >>, None)
    ELSE With(analyze_file_type(metadata.v), LAMBDA file_type_tags :
      IF file_type_tags.some
      THEN Outcome(Ok(file_type_tags.v), << "symlink_metadata" >>, None)
      ELSE With(analyze_permissions(metadata.v), LAMBDA is_executable :
        With(analyze_filename_and_shebang_configured(cfg, e, is_executable), LAMBDA fs :
          With({FILE} \cup (IF is_executable THEN {EXECUTABLE} ELSE {NON_EXECUTABLE})
                 \cup fs.tags, LAMBDA tags :
            With(IF cfg.skip_content_analysis THEN [res |-> Ok({}), ops |-> << >>]
                 ELSE analyze_content_encoding(e, tags), LAMBDA enc :
              Outcome(IF enc.res.ok THEN Ok(tags \cup enc.res.v) ELSE enc.res,
                      << "symlink_metadata" >> \o fs.ops \o enc.ops,
                      Some(fs))))))))

identify(cfg, e) == identify_with_config(cfg, e)

\* FileIdentifier::new and the builder methods.
FileIdentifier_new ==
  [skip_content_analysis |-> FALSE, skip_shebang_analysis |-> FALSE,
   custom_extensions |-> None]
skip_content_analysis(cfg) == [cfg EXCEPT !.skip_content_analysis = TRUE]
skip_shebang_analysis(cfg) == [cfg EXCEPT !.skip_shebang_analysis = TRUE]
with_custom_extensions(cfg, extensions) ==
  [cfg EXCEPT !.custom_extensions = Some(extensions)]

\* ------------------------------------------------------------------------
\* Command-line front end (bin/main.rs)
\* ------------------------------------------------------------------------

\* The tags of the model in the order of str::cmp (byte order), which is
\* the order Vec::sort puts them in.
TagOrder ==
  << "ash", "awk", "bash", "bats", "binary", "cargo", "cbsd", "csh", "dash",
     "directory", "dockerfile", "executable", "expect", "file", "gitignore",
     "gzip", "image", "ini", "javascript", "jpeg", "ksh", "markdown",
     "non-executable", "perl", "php", "php7", "php8", "plain-text", "plist",
     "python", "python2", "python3", "ruby", "sh", "shell", "socket", "symlink",
     "tcsh", "text", "toml", "zsh" >>

\* tags.iter().cloned().collect() followed by sort().
sorted_tags(tags) == SelectSeq(TagOrder, LAMBDA t : t \in tags)

\* The double quote that serde_json puts around a string.
Quote == "dquote"

\* serde_json::to_string of a list of strings, as the pieces of the text:
\* `[`, then each string between quotes with `,` in between, then `]`.
RECURSIVE json_items(_)
json_items(v) ==
  IF v = << >> THEN << >>
  ELSE IF Len(v) = 1 THEN << Quote, v[1], Quote >>
  ELSE << Quote, v[1], Quote, "," >> \o json_items(Tail(v))

json_to_string(v) == << "[" >> \o json_items(v) \o << "]" >>

\* The Display text of an IdentifyError.
display(err) ==
  IF err.kind = "PathNotFound" THEN << err.path, " does not exist." >>
  ELSE << "IO error: ", err.kind >>

\* What a run of the front end leaves behind.
Run(filename_only, stdout, stderr, code) ==
  [filename_only |-> filename_only, stdout |-> stdout, stderr |-> stderr,
   exit |-> Some(code)]

\* main that prints the array also when it is empty.
main_prints_empty(filename_only, e) ==
  IF ~from_utf8(e.path).some
  THEN Run(filename_only, << >>, << << "error: invalid UTF-8" >> >>, 2)
  ELSE With(IF filename_only THEN Ok(tags_from_filename(e.path))
            ELSE tags_from_path(e).res, LAMBDA tags :
    IF ~tags.ok THEN Run(filename_only, << >>, << display(tags.err) >>, 1)
    ELSE Run(filename_only, << json_to_string(sorted_tags(tags.v)) >>, << >>, 0))

\* main on the arguments [--filename-only] <path>: what it prints and its
\* exit status.  A path argument that is not UTF-8 is refused by the
\* argument parser (exit status 2).
main(filename_only, e) ==
  IF ~from_utf8(e.path).some
  THEN Run(filename_only, << >>, << << "error: invalid UTF-8" >> >>, 2)
  ELSE With(IF filename_only THEN Ok(tags_from_filename(e.path))
            ELSE tags_from_path(e).res, LAMBDA tags :
    IF ~tags.ok THEN Run(filename_only, << >>, << display(tags.err) >>, 1)
    ELSE IF tags.v = {} THEN Run(filename_only, << >>, << >>, 1)
    ELSE Run(filename_only, << json_to_string(sorted_tags(tags.v)) >>, << >>, 0))

\* ------------------------------------------------------------------------
\* Inputs of the classifier
\* ------------------------------------------------------------------------

\* A path is the concatenation of at most MaxNameFrags of these pieces.
MaxNameFrags == 2

NameFrags ==
  { B(<<"D","o","c","k","e","r","f","i","l","e">>),
    B(<<"s","c","r","i","p","t">>),
    B(<<".","g","z">>),
    B(<<".","P","Y">>),
    B(<<".","p","l","i","s","t">>),
    << 255 >> }

\* The non-empty sequences over S of length at most n.
SeqsUpTo(S, n) == UNION {[1..k -> S] : k \in 1..n}

Paths == {Concat(fs) : fs \in SeqsUpTo(NameFrags, MaxNameFrags)}

\* File contents: empty, one NUL byte, and first lines with and without a
\* usable shebang.
Contents ==
  { << >>,
    << 0 >>,
    B(<<"#","!","/","u","s","r","/","b","i","n","/","e","n","v"," ",
        "p","y","t","h","o","n","3">>) \o << LF >> \o B(<<"x">>),
    B(<<"#","!","/","b","i","n","/","s","h">>),
    B(<<"#","!","/","u","s","r","/","b","i","n","/","e","n","v"," ","-","S">>) \o << LF >>,
    B(<<"#","!","/","o","p","t","/","f","o","o">>) \o << LF, 0 >> }

\* Permission bits 0o644, 0o755 and 0o010.
Modes == {6 * 64 + 4 * 8 + 4, 7 * 64 + 5 * 8 + 5, 8}

IoOutcomes == {"ok", "meta_fail", "open_fail", "read_fail"}

Entry(kind, mode, path, content, io) ==
  [kind |-> kind, mode |-> mode, path |-> path, content |-> content, io |-> io]

\* Regular files in every combination; the other kinds of entry with every
\* path and mode (a missing entry has neither mode nor content).
Entries ==
       {Entry("file", m, p, c, io) : m \in Modes, p \in Paths, c \in Contents,
                                     io \in IoOutcomes}
  \cup {Entry(k, m, p, << >>, io) : k \in {"dir", "symlink", "socket"}, m \in Modes,
                                    p \in Paths, io \in {"ok", "meta_fail"}}
  \cup {Entry("missing", 0, p, << >>, "ok") : p \in Paths}

\* Custom extension mappings: an entry with an encoding tag and an entry
\* without one, for extensions the built-in tables know as well.
CustomMap ==
     (B(<<"p","y">>) :> {"custom", TEXT})
  @@ (B(<<"g","z">>) :> {"custom"})

Configs ==
  {[skip_content_analysis |-> sc, skip_shebang_analysis |-> ss, custom_extensions |-> ce] :
     sc \in BOOLEAN, ss \in BOOLEAN, ce \in {None, Some(CustomMap)}}

\* Filenames given to tags_from_filename: the concatenation of at most
\* MaxFilenameFrags of these pieces.
MaxFilenameFrags == 3

FilenameFrags ==
  { B(<<"D","o","c","k","e","r","f","i","l","e">>),
    B(<<"R","E","A","D","M","E">>),
    B(<<"s","e","t","u","p">>),
    B(<<"x">>),
    B(<<".","c","f","g">>),
    B(<<".","g","z">>),
    B(<<".","m","d">>),
    B(<<".","J","p","G">>),
    B(<<".","j","p","g">>),
    B(<<".","p","l","i","s","t">>),
    B(<<".">>),
    B(<<"/">>) }

Filenames == {Concat(fs) : fs \in SeqsUpTo(FilenameFrags, MaxFilenameFrags)}

\* Byte streams given to parse_shebang: nothing or `#!`, followed by at
\* most MaxShebangFrags of these pieces.
MaxShebangFrags == 3

\* A run of letters longer than the line limit of parse_shebang.
LongRun == [i \in 1..(ShebangLimit + 6) |-> Ord("a")]

VT == 11
NUL == 0
NBSP == << 194, 160 >>

ShebangFrags ==
  { UsrBinEnv,
    B(<<" ","-","S">>),
    B(<<" ","p","y","t","h","o","n","3">>),
    B(<<"s","h">>),
    B(<<" ">>), << Tab >>, << LF >>, << CR >>, << VT >>, << NUL >>,
    NBSP, << 255 >> }

\* Streams whose first line is longer than the line limit.
LongStreams ==
  {p \o LongRun \o t : p \in {<< >>, ShebangMarker},
                       t \in {<< >>, << 255 >>, << LF, NUL >>, B(<<" ","s","h">>)}}

ShebangStreams ==
  {<< >>, ShebangMarker}
  \cup {p \o Concat(fs) : p \in {<< >>, ShebangMarker},
                          fs \in SeqsUpTo(ShebangFrags, MaxShebangFrags)}
  \cup LongStreams

\* A reader is the bytes of the stream and whether reading from it works.
Reader(data, readOk) == [data |-> data, readOk |-> readOk]

Readers == {Reader(d, ok) : d \in ShebangStreams, ok \in BOOLEAN}

\* Interpreter tokens given to tags_from_interpreter: the concatenation of
\* at most MaxTokenFrags of these pieces.
MaxTokenFrags == 4

TokenFrags ==
  { B(<<"/">>), B(<<".">>),
    B(<<"p","y","t","h","o","n">>),
    B(<<"p","y","t","h","o","n","3">>),
    B(<<"b","a","s","h">>),
    B(<<".","1","1">>),
    B(<<"x">>),
    B(<<"p","y","t","h","o","n",".","d","/">>) }

Tokens == {<< >>} \cup {Concat(fs) : fs \in SeqsUpTo(TokenFrags, MaxTokenFrags)}

\* Sources given to is_text: at most MaxSniffBytes bytes, one of each kind
\* of byte the sniffer tells apart, and sources that reach the read limit.
MaxSniffBytes == 2

SniffBytes == {0, 6, 7, 13, 14, 26, 27, 28, 31, 32, 126, 127, 128, 255}

TextRun(n) == [i \in 1..n |-> Ord("a")]

\* A run of text bytes that ends 2, 1 or 0 bytes before the read limit,
\* followed by one more byte.
LongSources ==
  {TextRun(SniffLen - k) \o s : k \in {0, 1, 2}, s \in SeqsUpTo(SniffBytes, 1)}

SniffSources == {<< >>} \cup SeqsUpTo(SniffBytes, MaxSniffBytes) \cup LongSources

SniffReaders == {Reader(d, ok) : d \in SniffSources, ok \in BOOLEAN}

\* ------------------------------------------------------------------------
\* State machine of one call
\* ------------------------------------------------------------------------
VARIABLES
  api,      \* "none" before the call, then the function that was called
  entry,    \* the filesystem entry at the path given to the call
  cfg,      \* the configuration of the FileIdentifier (default for tags_from_path)
  out,      \* the outcome of a classification call
  fname,    \* the filename given to tags_from_filename
  ftags,    \* the tag set tags_from_filename returned
  reader,   \* the byte stream given to parse_shebang
  shebang,  \* the result parse_shebang returned
  held,     \* the number of bytes parse_shebang read into its line buffer
  token,    \* the interpreter token given to tags_from_interpreter
  itags,    \* the tag set tags_from_interpreter returned
  sniff,    \* the result is_text returned
  cli,      \* the command-line front end: its arguments and what it emitted
  calls,    \* the classification calls in progress on concurrent threads
  statics   \* the lazily initialised static tables: None until first use

vars == << api, entry, cfg, out, fname, ftags, reader, shebang, held, token, itags,
           sniff, cli, calls, statics >>

\* The variables of the sniffer, the front end and the concurrent calls.
extras == << sniff, cli, calls, statics >>

\* The front end before it ran: no output, no exit status.
NoCli ==
  [filename_only |-> FALSE, stdout |-> << >>, stderr |-> << >>, exit |-> None]

\* The names of the lazily initialised statics (tags.rs, interpreters.rs,
\* and the tables of the extensions module).
StaticNames ==
  {"TYPE_TAGS", "MODE_TAGS", "ENCODING_TAGS", "INTERPRETERS",
   "NAME_TAGS", "EXTENSION_TAGS", "EXTENSIONS_NEED_BINARY_CHECK_TAGS"}

NoStatics == [n \in StaticNames |-> None]

ExtrasIdle ==
  /\ sniff = Ok(TRUE)
  /\ cli = NoCli
  /\ calls = << >>
  /\ statics = NoStatics

NoReader == Reader(<< >>, TRUE)

\* The variables of the shebang parser and of the interpreter lookup before
\* any call.
ParserIdle ==
  /\ reader = NoReader
  /\ shebang = Ok(<< >>)
  /\ held = 0
  /\ token = << >>
  /\ itags = {}
  /\ ExtrasIdle

NoOutcome == Outcome(Ok({}), << >>, None)

NoEntry == Entry("missing", 0, << >>, << >>, "ok")

Init ==
  /\ api = "none"
  /\ entry \in Entries
  /\ cfg = FileIdentifier_new
  /\ out = NoOutcome
  /\ fname = << >>
  /\ ftags = {}
  /\ ParserIdle

TagsFromPath ==
  /\ api = "none"
  /\ api' = "tags_from_path"
  /\ out' = tags_from_path(entry)
  /\ UNCHANGED << entry, cfg, fname, ftags, reader, shebang, held, token, itags, extras >>

Identify ==
  /\ api = "none"
  /\ \E c \in Configs :
       /\ cfg' = c
       /\ out' = identify(c, entry)
  /\ api' = "identify"
  /\ UNCHANGED << entry, fname, ftags, reader, shebang, held, token, itags, extras >>

\* A direct call of parse_shebang_from_file on the path of the entry.
ParseShebangFromFile ==
  /\ api = "none"
  /\ api' = "parse_shebang_from_file"
  /\ out' = Outcome(parse_shebang_from_file(entry).res,
                    parse_shebang_from_file(entry).ops, None)
  /\ UNCHANGED << entry, cfg, fname, ftags, reader, shebang, held, token, itags, extras >>

Next == TagsFromPath \/ Identify \/ ParseShebangFromFile

Spec == Init /\ [][Next]_vars

\* What may be on disk under a filename given to tags_from_filename:
\* nothing, an executable script, a directory.
EntriesNamed(filename) ==
  { Entry("missing", 0, filename, << >>, "ok"),
    Entry("file", 7 * 64 + 5 * 8 + 5, filename,
          B(<<"#","!","/","b","i","n","/","s","h">>), "ok"),
    Entry("dir", 7 * 64 + 5 * 8 + 5, filename, << >>, "ok") }

\* The filename-only variant: the filename is all the function is given.
InitFilename ==
  /\ api = "none"
  /\ fname \in Filenames
  /\ entry \in EntriesNamed(fname)
  /\ cfg = FileIdentifier_new
  /\ out = NoOutcome
  /\ ftags = {}
  /\ ParserIdle

\* tags_from_filename looking at the disk: the directory tag for a
\* directory, and the file classified as tags_from_path does.
TagsFromFilename_with_stat ==
  /\ api = "none"
  /\ api' = "tags_from_filename"
  /\ ftags' = tags_from_filename(fname)
                \cup (IF entry.kind = "dir" THEN {DIRECTORY} ELSE {})
  /\ out' = Outcome(Ok({}), << "symlink_metadata" >>, None)
  /\ UNCHANGED << entry, cfg, fname, reader, shebang, held, token, itags, extras >>

TagsFromFilename ==
  /\ api = "none"
  /\ api' = "tags_from_filename"
  /\ ftags' = tags_from_filename(fname)
  /\ UNCHANGED << entry, cfg, out, fname, reader, shebang, held, token, itags, extras >>

NextFilename == TagsFromFilename

SpecFilename == InitFilename /\ [][NextFilename]_vars

\* The variables of the classifier and of the filename lookup before any
\* call.
ClassifierIdle ==
  /\ entry = NoEntry
  /\ cfg = FileIdentifier_new
  /\ out = NoOutcome
  /\ fname = << >>
  /\ ftags = {}

\* The shebang parser alone: one call of parse_shebang on a reader.
InitShebang ==
  /\ api = "none"
  /\ ClassifierIdle
  /\ reader \in Readers
  /\ shebang = Ok(<< >>)
  /\ held = 0
  /\ token = << >>
  /\ itags = {}
  /\ ExtrasIdle

ParseShebang ==
  /\ api = "none"
  /\ api' = "parse_shebang"
  /\ shebang' = parse_shebang(reader)
  /\ held' = first_line_read(reader)
  /\ UNCHANGED << entry, cfg, out, fname, ftags, reader, token, itags, extras >>

NextShebang == ParseShebang

SpecShebang == InitShebang /\ [][NextShebang]_vars

\* The interpreter lookup alone: one call of tags_from_interpreter.
InitInterpreter ==
  /\ api = "none"
  /\ ClassifierIdle
  /\ reader = NoReader
  /\ shebang = Ok(<< >>)
  /\ held = 0
  /\ token \in Tokens
  /\ itags = {}
  /\ ExtrasIdle

TagsFromInterpreter ==
  /\ api = "none"
  /\ api' = "tags_from_interpreter"
  /\ itags' = tags_from_interpreter(token)
  /\ UNCHANGED << entry, cfg, out, fname, ftags, reader, shebang, held, token, extras >>

NextInterpreter == TagsFromInterpreter

SpecInterpreter == InitInterpreter /\ [][NextInterpreter]_vars

\* The front end: one run on a path, with or without --filename-only.
InitCli ==
  /\ api = "none"
  /\ entry \in Entries
  /\ cfg = FileIdentifier_new
  /\ out = NoOutcome
  /\ fname = << >>
  /\ ftags = {}
  /\ reader = NoReader
  /\ shebang = Ok(<< >>)
  /\ held = 0
  /\ token = << >>
  /\ itags = {}
  /\ sniff = Ok(TRUE)
  /\ cli \in {[NoCli EXCEPT !.filename_only = f] : f \in BOOLEAN}
  /\ calls = << >>
  /\ statics = NoStatics

Main ==
  /\ api = "none"
  /\ api' = "main"
  /\ cli' = main(cli.filename_only, entry)
  /\ UNCHANGED << entry, cfg, out, fname, ftags, reader, shebang, held, token, itags,
                  sniff, calls, statics >>

NextCli == Main

SpecCli == InitCli /\ [][NextCli]_vars

\* The content sniffer alone: one call of is_text on a reader.
InitSniff ==
  /\ api = "none"
  /\ ClassifierIdle
  /\ reader \in SniffReaders
  /\ shebang = Ok(<< >>)
  /\ held = 0
  /\ token = << >>
  /\ itags = {}
  /\ ExtrasIdle

IsText ==
  /\ api = "none"
  /\ api' = "is_text"
  /\ sniff' = is_text(reader)
  /\ UNCHANGED << entry, cfg, out, fname, ftags, reader, shebang, held, token, itags,
                  cli, calls, statics >>

NextSniff == IsText

SpecSniff == InitSniff /\ [][NextSniff]_vars

\* ------------------------------------------------------------------------
\* Concurrent classification calls
\* ------------------------------------------------------------------------

\* The number of calls running at the same time.
NumCalls == 2

\* The content a static has once it is initialised.
StaticValue(n) ==
  CASE n = "TYPE_TAGS" -> TYPE_TAGS
    [] n = "MODE_TAGS" -> MODE_TAGS
    [] n = "ENCODING_TAGS" -> ENCODING_TAGS
    [] n = "INTERPRETERS" -> INTERPRETERS
    [] n = "NAME_TAGS" -> NAME_TAGS
    [] n = "EXTENSION_TAGS" -> EXTENSION_TAGS
    [] n = "EXTENSIONS_NEED_BINARY_CHECK_TAGS" -> EXTENSIONS_NEED_BINARY_CHECK_TAGS

\* Lazy / lazy_static dereference of the statics in names: the first
\* dereference runs the initialiser once, later ones find the value.
deref(st, names) ==
  [n \in StaticNames |->
     IF n \in names /\ ~st[n].some THEN Some(StaticValue(n)) ELSE st[n]]

\* The statics tags_from_filename dereferences for a filename: the name
\* table always, the extension table when there is an extension, the
\* binary-check-only table when the extension table has no entry.
filename_statics(filename) ==
  With(PathExtension(filename), LAMBDA ext :
    {"NAME_TAGS"}
    \cup (IF ext.some THEN {"EXTENSION_TAGS"} ELSE {})
    \cup (IF ext.some /\ get_extension_tags(to_lowercase(ext.v)) = {}
          THEN {"EXTENSIONS_NEED_BINARY_CHECK_TAGS"} ELSE {}))

\* The statics the filename/shebang step dereferences: those of
\* tags_from_filename when it ran, the interpreter table when the shebang
\* parser returned a command.
step_statics(e, fs) ==
  (IF fs.named THEN filename_statics(filename_of(e.path).v) ELSE {})
  \cup (IF fs.shebang
        THEN With(parse_shebang_from_file(e).res, LAMBDA sb :
               IF sb.ok /\ sb.v # << >> THEN {"INTERPRETERS"} ELSE {})
        ELSE {})

\* A call on a thread: the function called, its configuration and path,
\* the point it has reached, its local variables, its result, and whether
\* one of its steps ran while another call was between its first and its
\* last step.
Call(fn, c, e) ==
  [fn |-> fn, cfg |-> c, e |-> e, pc |-> "start", is_executable |-> FALSE,
   tags |-> {}, res |-> Ok({}), raced |-> FALSE]

\* Another call than i is between its first and its last step.
overlaps(cs, i) == \E j \in DOMAIN cs : j # i /\ cs[j].pc \in {"named", "content"}

\* First step of call i: the link-aware stat, the entry type and the
\* permission bits.
call_stat(cs, i) ==
  With(symlink_metadata(cs[i].e), LAMBDA metadata :
    IF ~metadata.some
    THEN [cs EXCEPT ![i].pc = "done", ![i].res = Err(PathNotFound(cs[i].e.path)),
                    ![i].raced = @ \/ overlaps(cs, i)]
    ELSE With(analyze_file_type(metadata.v), LAMBDA file_type_tags :
      IF file_type_tags.some
      THEN [cs EXCEPT ![i].pc = "done", ![i].res = Ok(file_type_tags.v),
                      ![i].raced = @ \/ overlaps(cs, i)]
      ELSE With(analyze_permissions(metadata.v), LAMBDA is_executable :
        [cs EXCEPT ![i].pc = "named", ![i].is_executable = is_executable,
                   ![i].tags = {FILE} \cup (IF is_executable THEN {EXECUTABLE}
                                            ELSE {NON_EXECUTABLE}),
                   ![i].raced = @ \/ overlaps(cs, i)])))

\* The filename/shebang step of call i.
call_step(c) ==
  IF c.fn = "tags_from_path"
  THEN analyze_filename_and_shebang(c.e, c.is_executable)
  ELSE analyze_filename_and_shebang_configured(c.cfg, c.e, c.is_executable)

\* Second step with the tag set shared between the threads: the tags of
\* the step are added to every call that has not returned.
call_named_shared(cs, i) ==
  With(call_step(cs[i]), LAMBDA fs :
    [j \in DOMAIN cs |->
       IF j # i
       THEN IF cs[j].pc = "done" THEN cs[j] ELSE [cs[j] EXCEPT !.tags = @ \cup fs.tags]
       ELSE IF cs[i].fn = "identify" /\ cs[i].cfg.skip_content_analysis
            THEN [cs[i] EXCEPT !.pc = "done", !.tags = @ \cup fs.tags,
                               !.res = Ok(cs[i].tags \cup fs.tags),
                               !.raced = @ \/ overlaps(cs, i)]
            ELSE [cs[i] EXCEPT !.pc = "content", !.tags = @ \cup fs.tags,
                               !.raced = @ \/ overlaps(cs, i)]])

\* Second step of call i: the filename/shebang step extends the tag set of
\* the call; identify returns here when content analysis is skipped.
call_named(cs, i) ==
  With(call_step(cs[i]), LAMBDA fs :
    IF cs[i].fn = "identify" /\ cs[i].cfg.skip_content_analysis
    THEN [cs EXCEPT ![i].pc = "done", ![i].tags = @ \cup fs.tags,
                    ![i].res = Ok(cs[i].tags \cup fs.tags),
                    ![i].raced = @ \/ overlaps(cs, i)]
    ELSE [cs EXCEPT ![i].pc = "content", ![i].tags = @ \cup fs.tags,
                    ![i].raced = @ \/ overlaps(cs, i)])

\* Last step of call i: the content step and the return.
call_content(cs, i) ==
  With(analyze_content_encoding(cs[i].e, cs[i].tags), LAMBDA enc :
    [cs EXCEPT ![i].pc = "done",
               ![i].res = IF enc.res.ok THEN Ok(cs[i].tags \cup enc.res.v) ELSE enc.res,
               ![i].raced = @ \/ overlaps(cs, i)])

\* The entries of the unchanging filesystem the concurrent calls work on:
\* an executable python script, an unreadable plist file, Dockerfile.gz.
ConcScript ==
  Entry("file", 7 * 64 + 5 * 8 + 5, B(<<"s","c","r","i","p","t">>),
        B(<<"#","!","/","u","s","r","/","b","i","n","/","e","n","v"," ",
            "p","y","t","h","o","n","3">>) \o << LF >> \o B(<<"x">>), "ok")
ConcPlist ==
  Entry("file", 6 * 64 + 4 * 8 + 4,
        B(<<"s","c","r","i","p","t",".","p","l","i","s","t">>), << 0 >>, "open_fail")
ConcDockerfile ==
  Entry("file", 6 * 64 + 4 * 8 + 4,
        B(<<"D","o","c","k","e","r","f","i","l","e",".","g","z">>), << 0 >>, "ok")

ConcEntries == {ConcScript, ConcPlist, ConcDockerfile}

\* The calls made: tags_from_path on every entry, and identify without
\* content analysis, with the default configuration and with a custom
\* mapping.
ConcCalls ==
       {Call("tags_from_path", FileIdentifier_new, e) : e \in ConcEntries}
  \cup { Call("identify", skip_content_analysis(FileIdentifier_new), ConcScript),
         Call("identify", FileIdentifier_new, ConcPlist),
         Call("identify", with_custom_extensions(FileIdentifier_new, CustomMap),
              ConcDockerfile) }

InitConcurrent ==
  /\ api = "concurrent"
  /\ ClassifierIdle
  /\ reader = NoReader
  /\ shebang = Ok(<< >>)
  /\ held = 0
  /\ token = << >>
  /\ itags = {}
  /\ sniff = Ok(TRUE)
  /\ cli = NoCli
  /\ calls \in [1..NumCalls -> ConcCalls]
  /\ statics = NoStatics

CallStat ==
  \E i \in DOMAIN calls :
    /\ calls[i].pc = "start"
    /\ calls' = call_stat(calls, i)
    /\ UNCHANGED << api, entry, cfg, out, fname, ftags, reader, shebang, held, token,
                    itags, sniff, cli, statics >>

CallNamed ==
  \E i \in DOMAIN calls :
    /\ calls[i].pc = "named"
    /\ calls' = call_named(calls, i)
    /\ statics' = deref(statics, step_statics(calls[i].e, call_step(calls[i])))
    /\ UNCHANGED << api, entry, cfg, out, fname, ftags, reader, shebang, held, token,
                    itags, sniff, cli >>

CallContent ==
  \E i \in DOMAIN calls :
    /\ calls[i].pc = "content"
    /\ calls' = call_content(calls, i)
    /\ statics' = deref(statics, {"ENCODING_TAGS"})
    /\ UNCHANGED << api, entry, cfg, out, fname, ftags, reader, shebang, held, token,
                    itags, sniff, cli >>

NextConcurrent == CallStat \/ CallNamed \/ CallContent

SpecConcurrent == InitConcurrent /\ [][NextConcurrent]_vars

\* ------------------------------------------------------------------------
\* Properties
\* ------------------------------------------------------------------------
Classified == api \in {"tags_from_path", "identify"}

\* The call opened the file or read from it.
ReadsContent == \E i \in 1..Len(out.ops) : out.ops[i] \in {"open", "read"}

\* The call went into parse_shebang_from_file (the only place that stats
\* the path with links followed).
ShebangCalled == \E i \in 1..Len(out.ops) : out.ops[i] = "metadata"

\* At least one of the permission bits 0o111 of the entry is set.
HasExecBit == \E b \in {1, 8, 64} : (entry.mode \div b) % 2 = 1

\* The file name of the entry's path as text, and what the lookups give.
EntryName == filename_of(entry.path)
EntryCustom ==
  IF cfg.custom_extensions.some /\ EntryName.some /\ PathExtension(EntryName.v).some
     /\ to_lowercase(PathExtension(EntryName.v).v) \in DOMAIN cfg.custom_extensions.v
  THEN Some(cfg.custom_extensions.v[to_lowercase(PathExtension(EntryName.v).v)])
  ELSE None

\* tags_from_filename ran on the file name and found nothing.
NameUnrecognised ==
  EntryName.some /\ ~EntryCustom.some /\ tags_from_filename(EntryName.v) = {}

PythonScript ==
  B(<<"#","!","/","u","s","r","/","b","i","n","/","e","n","v"," ",
      "p","y","t","h","o","n","3">>) \o << LF >> \o B(<<"x">>)

\* C1: a directory, a symlink (dangling or not) and a socket are classified
\* as exactly {directory}, {symlink}, {socket}, after the link-aware stat
\* alone: nothing else is added and the content is not read.
C1_NonRegularExact ==
  Classified /\ entry.kind \in {"dir", "symlink", "socket"} =>
    /\ out.res.ok
    /\ out.res.v = (IF entry.kind = "dir" THEN {"directory"}
                    ELSE IF entry.kind = "symlink" THEN {"symlink"} ELSE {"socket"})
    /\ out.ops = << "symlink_metadata" >>
    /\ ~ReadsContent

C1_Witness ==
  /\ api = "tags_from_path" /\ entry.kind = "symlink" /\ entry.io = "meta_fail"
  /\ entry.mode = 7 * 64 + 5 * 8 + 5
  /\ out.res.ok /\ out.res.v = {"symlink"}

C3_FileAndMode ==
  Classified /\ entry.kind = "file" /\ out.res.ok =>
    /\ "file" \in out.res.v
    /\ out.res.v \cap {"directory", "symlink", "socket"} = {}
    /\ ("executable" \in out.res.v) # ("non-executable" \in out.res.v)
    /\ ("executable" \in out.res.v) <=> HasExecBit

C3_Witness ==
  /\ api = "identify" /\ entry.kind = "file" /\ entry.mode = 8
  /\ cfg.custom_extensions.some /\ out.res.ok
  /\ "executable" \in out.res.v /\ "non-executable" \notin out.res.v

\* C4: a tag set returned for a regular file (no custom extensions) has at
\* most one of `text` and `binary`.
C4_AtMostOneEncoding ==
  Classified /\ entry.kind = "file" /\ ~cfg.custom_extensions.some /\ out.res.ok =>
    ~("text" \in out.res.v /\ "binary" \in out.res.v)

C6_CustomExclusive ==
  api = "identify" /\ entry.kind = "file" /\ cfg.custom_extensions.some =>
    /\ EntryCustom.some => (out.step.v.tags = EntryCustom.v /\ ~ShebangCalled)
    /\ ~EntryCustom.some =>
         LET plain == identify([cfg EXCEPT !.custom_extensions = None], entry) IN
         out.step.v.tags = plain.step.v.tags /\ out.ops = plain.ops /\ out.res = plain.res

C6_Witness ==
  /\ api = "identify" /\ entry.kind = "file" /\ cfg.custom_extensions.some
  /\ entry.path = B(<<"D","o","c","k","e","r","f","i","l","e",".","g","z">>)
  /\ out.step.v.tags = {"custom"}

\* The entry of the first special-name candidate of the filename (the whole
\* filename, then its dot-separated pieces), read off the table.
FirstNameEntry(f) ==
  LET cands == << f >> \o Split(f, Dot)
      hit(i) == cands[i] \in DOMAIN NAME_TAGS /\ NAME_TAGS[cands[i]] # {}
  IN  IF \E i \in 1..Len(cands) : hit(i)
      THEN NAME_TAGS[cands[CHOOSE i \in 1..Len(cands) :
                             hit(i) /\ \A j \in 1..(i - 1) : ~hit(j)]]
      ELSE {}

\* The entry of the lower-cased extension, read off the two extension tables.
ExtensionEntry(f) ==
  LET ext == PathExtension(f) IN
  IF ~ext.some THEN {}
  ELSE LET x == to_lowercase(ext.v) IN
       IF x \in DOMAIN EXTENSION_TAGS THEN EXTENSION_TAGS[x]
       ELSE IF x \in DOMAIN EXTENSIONS_NEED_BINARY_CHECK_TAGS
            THEN EXTENSIONS_NEED_BINARY_CHECK_TAGS[x] ELSE {}

C8_NoSniffWhenEncoded ==
  Classified /\ entry.kind = "file"
  /\ (IF EntryCustom.some THEN EntryCustom.v
      ELSE IF EntryName.some THEN tags_from_filename(EntryName.v) ELSE {})
       \cap {"text", "binary"} # {} =>
    /\ ~ReadsContent
    /\ out.res.ok
    /\ out.res.v \cap {"text", "binary"} = out.step.v.tags \cap {"text", "binary"}

C8_Witness ==
  /\ api = "tags_from_path" /\ entry.kind = "file" /\ entry.io = "open_fail"
  /\ entry.path = B(<<"s","c","r","i","p","t",".","P","Y">>)
  /\ entry.content = << 0 >>
  /\ out.res.ok /\ "text" \in out.res.v /\ ~ReadsContent

\* C9 as stated: with skip_content_analysis the tag set of a regular file
\* has neither `text` nor `binary`.
C9_NoEncodingWhenSkipped ==
  api = "identify" /\ cfg.skip_content_analysis /\ entry.kind = "file" /\ out.res.ok =>
    out.res.v \cap {"text", "binary"} = {}

\* C9 amended: with skip_content_analysis identify succeeds for a regular
\* file and adds no encoding tag of its own: the set is `file`, the mode tag
\* and the tags of the filename/shebang step, so it has `text` or `binary`
\* only when the step supplied it, and neither for an unrecognised name.
C9_NoSniffedEncoding ==
  api = "identify" /\ cfg.skip_content_analysis /\ entry.kind = "file" =>
    /\ out.res.ok
    /\ out.res.v = {"file"} \cup (IF HasExecBit THEN {"executable"} ELSE {"non-executable"})
                   \cup out.step.v.tags
    /\ NameUnrecognised => out.res.v \cap {"text", "binary"} = {}

C9_Witness ==
  /\ api = "identify" /\ cfg.skip_content_analysis /\ entry.kind = "file"
  /\ entry.path = B(<<"s","c","r","i","p","t",".","P","Y">>)
  /\ out.res.ok /\ "text" \in out.res.v /\ ~ReadsContent

\* C10: with skip_content_analysis (shebang analysis enabled) identify
\* never opens or reads the content of the file.
C10_SkipContentNeverReads ==
  api = "identify" /\ cfg.skip_content_analysis /\ ~cfg.skip_shebang_analysis =>
    ~ReadsContent

\* C11: identify with the default configuration is tags_from_path: on every
\* entry both give the same tag set or the same error and perform the same
\* filesystem operations.
C11_DefaultIdentifyIsTagsFromPath ==
  /\ (api = "identify" /\ cfg = FileIdentifier_new) =>
       (/\ out.res = tags_from_path(entry).res
        /\ out.ops = tags_from_path(entry).ops)
  /\ api = "tags_from_path" =>
       (/\ out.res = identify(FileIdentifier_new, entry).res
        /\ out.ops = identify(FileIdentifier_new, entry).ops)

C11_Witness ==
  /\ api = "identify" /\ cfg = FileIdentifier_new
  /\ entry.kind = "file" /\ entry.content = PythonScript /\ entry.io = "ok"
  /\ out.res.ok /\ "python3" \in out.res.v
  /\ out.ops = << "symlink_metadata", "metadata", "open", "read", "open", "read" >>

\* C12: when content sniffing runs (not skipped, no encoding tag from the
\* filename/shebang step) and the file cannot be opened or read, the call
\* fails with the I/O error; the tags gathered so far are not returned.
C12_SniffFailureIsError ==
  Classified /\ entry.kind = "file" /\ ~cfg.skip_content_analysis
  /\ out.step.some /\ out.step.v.tags \cap {"text", "binary"} = {}
  /\ entry.io # "ok" =>
    /\ ~out.res.ok
    /\ out.res.err.kind = "IoError"
    /\ out.ops[Len(out.ops)] \in {"open", "read"}

C12_Witness ==
  /\ api = "tags_from_path" /\ entry.kind = "file" /\ entry.io = "read_fail"
  /\ entry.path = B(<<"s","c","r","i","p","t">>) /\ entry.mode = 6 * 64 + 4 * 8 + 4
  /\ ~out.res.ok /\ out.res.err.kind = "IoError"
  /\ out.ops = << "symlink_metadata", "open", "read" >>

\* C13: when parse_shebang_from_file is called in the shebang step and the
\* file cannot be stat'ed, opened or read, the call fails with an I/O error
\* instead of returning a tag set without interpreter tags.
C13_ShebangFailurePropagates ==
  Classified /\ entry.kind = "file" /\ ShebangCalled /\ entry.io # "ok" =>
    (~out.res.ok /\ out.res.err.kind = "IoError")

\* The first line of the stream without its line terminator, whole and as
\* parse_shebang holds it (its first 1024 bytes).
RawLine == strip_last(strip_last(read_until_lf(reader.data), LF), CR)
HeldLine == shebang_first_line(reader.data)

StartsWithMarker(line) == Len(line) >= 2 /\ line[1] = Ord("#") /\ line[2] = Ord("!")

\* The text of a line after `#!`: its chars, None when the line is not UTF-8.
AfterMarker(line) ==
  IF from_utf8(line).some THEN Some(Drop(from_utf8(line).v, 2)) ELSE None

\* The line is `#!` alone or `#!` followed by whitespace only.
BlankAfterMarker(line) ==
  /\ StartsWithMarker(line) /\ AfterMarker(line).some
  /\ \A i \in 1..Len(AfterMarker(line).v) : is_whitespace(AfterMarker(line).v[i])

\* A char that is not printable ASCII: non-ASCII, or a control character
\* other than horizontal tab.
NonPrintable(c) == c >= 128 \/ c = 127 \/ (c <= 31 /\ c # 9)

\* The line passes the UTF-8 and printable checks of parse_shebang.
AcceptedLine(line) ==
  /\ StartsWithMarker(line) /\ AfterMarker(line).some
  /\ \A i \in 1..Len(trim(AfterMarker(line).v)) : ~NonPrintable(trim(AfterMarker(line).v)[i])

\* The whitespace-split tokens of an accepted line.
LineTokens(line) == split_whitespace(AfterMarker(line).v)

\* /usr/bin/env, alone or followed by -S alone.
EnvAlone(line) ==
  /\ AcceptedLine(line)
  /\ LineTokens(line) \in {<< UsrBinEnv >>, << UsrBinEnv, DashS >>}

\* C14 as stated: parse_shebang returns Ok for every byte sequence, and the
\* empty command when the stream is empty, when the first line does not
\* start with `#!`, is not valid UTF-8, is `#!` followed by nothing but
\* whitespace, or is /usr/bin/env (with or without -S) with nothing to run.
C14_MalformedIsEmpty ==
  api = "parse_shebang" =>
    /\ shebang.ok
    /\ (reader.readOk /\ (\/ reader.data = << >>
                           \/ ~StartsWithMarker(RawLine)
                           \/ ~from_utf8(RawLine).some
                           \/ BlankAfterMarker(RawLine)
                           \/ EnvAlone(RawLine))) => shebang.v = << >>

\* C14 amended: the same, with the conditions read on the first line as cut
\* to its first 1024 bytes: bytes of the line beyond the cut are not
\* looked at, so a line that is not UTF-8 only beyond it is still parsed.
C14_MalformedHeldIsEmpty ==
  api = "parse_shebang" =>
    /\ shebang.ok
    /\ (reader.readOk /\ (\/ reader.data = << >>
                           \/ ~StartsWithMarker(HeldLine)
                           \/ ~from_utf8(HeldLine).some
                           \/ BlankAfterMarker(HeldLine)
                           \/ EnvAlone(HeldLine))) => shebang.v = << >>

C14_Witness ==
  /\ api = "parse_shebang" /\ reader.readOk
  /\ reader.data = ShebangMarker \o B(<<"s","h">>) \o << 255 >>
  /\ shebang.ok /\ shebang.v = << >>

\* C15: a read failure of the stream given to parse_shebang comes back as
\* an error, not as a successful empty command.
C15_ReadFailureIsError ==
  api = "parse_shebang" /\ ~reader.readOk => ~shebang.ok

\* C16: for the tokens of an accepted `#!` line: /usr/bin/env alone gives
\* the empty command; /usr/bin/env -S gives the tokens after -S; any other
\* /usr/bin/env line gives the tokens after /usr/bin/env; a line with
\* another first token gives all its tokens, in order.
C16_EnvUnwrap ==
  api = "parse_shebang" /\ reader.readOk /\ AcceptedLine(HeldLine) =>
    LET toks == LineTokens(HeldLine)
        n == Len(toks)
    IN  /\ shebang.ok
        /\ shebang.v =
             (IF n = 0 THEN << >>
              ELSE IF toks[1] # UsrBinEnv THEN toks
              ELSE IF n = 1 THEN << >>
              ELSE IF toks[2] = DashS THEN SubSeq(toks, 3, n)
              ELSE SubSeq(toks, 2, n))

C16_Witness ==
  /\ api = "parse_shebang" /\ reader.readOk
  /\ reader.data = ShebangMarker \o UsrBinEnv \o B(<<" ","-","S"," ","p","y","t","h","o","n","3">>)
  /\ shebang.ok /\ shebang.v = << B(<<"p","y","t","h","o","n","3">>) >>

\* C17: a non-ASCII byte or a control character other than tab at any
\* position of the first line after `#!` gives the empty command.
C17_NonPrintableVoids ==
  api = "parse_shebang" /\ reader.readOk /\ StartsWithMarker(RawLine)
  /\ (\E i \in 3..Len(RawLine) : NonPrintable(RawLine[i])) =>
    (shebang.ok /\ shebang.v = << >>)

\* C18: parse_shebang never holds more than 1024 bytes of the stream for
\* the first line.
C18_ReadCapped ==
  api = "parse_shebang" => held <= 1024

\* The text of a token after its last `/` (the whole token without one).
Basename(t) ==
  IF \E i \in 1..Len(t) : t[i] = Slash
  THEN SubSeq(t, 1 + (CHOOSE i \in 1..Len(t) :
                        t[i] = Slash /\ \A j \in (i + 1)..Len(t) : t[j] # Slash), Len(t))
  ELSE t

\* What is left of a name after removing zero or more trailing
\* `.`-delimited segments, and those of them that are keys of the table.
Stripped(b) == {b} \cup {SubSeq(b, 1, i - 1) : i \in {k \in 1..Len(b) : b[k] = Dot}}
KeysOf(b) == {c \in Stripped(b) : c \in DOMAIN INTERPRETERS}

\* The entry of the longest such key, empty when there is none.
LongestKeyEntry(b) ==
  IF KeysOf(b) = {} THEN {}
  ELSE INTERPRETERS[CHOOSE c \in KeysOf(b) : \A x \in KeysOf(b) : Len(x) <= Len(c)]

\* C19: a token with a path prefix resolves as its basename does (dots of
\* the directory part play no role), and a token ending in `/` resolves to
\* the empty set.
C19_BasenameOnly ==
  api = "tags_from_interpreter" /\ (\E i \in 1..Len(token) : token[i] = Slash) =>
    /\ itags = tags_from_interpreter(Basename(token))
    /\ token[Len(token)] = Slash => itags = {}

C19_Witness ==
  /\ api = "tags_from_interpreter"
  /\ token = B(<<"p","y","t","h","o","n",".","d","/","b","a","s","h",".","1","1">>)
  /\ itags = {"shell", "bash"}

\* C20: tags_from_interpreter returns the table entry of the longest key
\* obtainable from the basename by removing trailing `.`-delimited
\* segments, nothing merged from shorter keys, and the empty set when there
\* is no such key (the empty token included).
C20_LongestStrippedKey ==
  api = "tags_from_interpreter" => itags = LongestKeyEntry(Basename(token))

C20_Witness ==
  /\ api = "tags_from_interpreter"
  /\ token = B(<<"p","y","t","h","o","n","3",".","1","1",".","1","1">>)
  /\ itags = {"python", "python3"}

\* The bytes the sniffer takes for text: bell, backspace, tab, LF, VT, FF,
\* CR, ESC, 0x20..0x7E and 0x80..0xFF.
TextByte(b) ==
  b \in {7, 8, 9, 10, 11, 12, 13, 27} \/ (b >= 32 /\ b <= 126) \/ (b >= 128 /\ b <= 255)

\* The number of bytes of the source the sniffer looks at.
SniffWindow == IF Len(reader.data) < 1024 THEN Len(reader.data) ELSE 1024

ToUpperByte(b) == IF b >= 97 /\ b <= 122 THEN b - 32 ELSE b

\* Spellings of a string that differ from it in letter case only: the
\* letters at the positions of U in upper case and the others in lower
\* case, for U empty, full, one position, or all positions but one; and the
\* string itself with the case of one letter changed.
CaseVariants(e) ==
       {[i \in 1..Len(e) |-> IF i \in U THEN ToUpperByte(e[i]) ELSE ToLowerByte(e[i])] :
          U \in {{}, 1..Len(e)} \cup {{k} : k \in 1..Len(e)}
                \cup {(1..Len(e)) \ {k} : k \in 1..Len(e)}}
  \cup {[i \in 1..Len(e) |->
           IF i # k THEN e[i]
           ELSE IF ToUpperByte(e[i]) # e[i] THEN ToUpperByte(e[i]) ELSE ToLowerByte(e[i])] :
          k \in 1..Len(e)}

\* The filenames obtained from f by changing letter case in its final
\* extension only (f itself when it does not end with an extension).
ExtCaseVariants(f) ==
  LET ext == PathExtension(f) IN
  IF ext.some /\ Len(ext.v) < Len(f)
     /\ SubSeq(f, Len(f) - Len(ext.v) + 1, Len(f)) = ext.v
  THEN {SubSeq(f, 1, Len(f) - Len(ext.v)) \o v : v \in CaseVariants(ext.v)}
  ELSE {f}

\* C22 as stated: changing only the letter case of the final extension of
\* a filename does not change the tag set of tags_from_filename.
C22_ExtensionCaseIrrelevant ==
  api = "tags_from_filename" =>
    \A g \in ExtCaseVariants(fname) : tags_from_filename(g) = ftags

\* C22 amended: the tags contributed by the extension tables do not change
\* with the letter case of the final extension, and the whole tag set does
\* not change either as long as the special-name contribution (which is
\* matched case-sensitively) is the same for both spellings.
C22_ExtensionLookupCaseInsensitive ==
  api = "tags_from_filename" =>
    \A g \in ExtCaseVariants(fname) :
      /\ extension_lookup(g) = extension_lookup(fname)
      /\ FirstNameEntry(g) = FirstNameEntry(fname) => tags_from_filename(g) = ftags

C22_Witness ==
  /\ api = "tags_from_filename"
  /\ fname = B(<<"x",".","J","p","G">>)
  /\ ftags = {"image", "jpeg", "binary"}

\* Every tag of the three filename tables.
AllTableTags ==
  UNION ({NAME_TAGS[k] : k \in DOMAIN NAME_TAGS}
         \cup {EXTENSION_TAGS[k] : k \in DOMAIN EXTENSION_TAGS}
         \cup {EXTENSIONS_NEED_BINARY_CHECK_TAGS[k] :
                 k \in DOMAIN EXTENSIONS_NEED_BINARY_CHECK_TAGS})

C24_PathPrefixIrrelevant ==
  api = "tags_from_filename" /\ (\E i \in 1..Len(fname) : fname[i] = Slash)
  /\ Basename(fname) \notin {<< >>, << Dot >>, << Dot, Dot >>} =>
    ftags = tags_from_filename(Basename(fname))

\* C28: the special-name contribution is the entry of the first candidate
\* (whole filename, then its dot-separated segments from left to right)
\* that is a key of the name table, later candidates adding nothing; the
\* extension contribution is the entry of the lower-cased extension in the
\* extension table, and that of the binary-check-only table only when the
\* extension table has none.
C28_FirstCandidateWins ==
  api = "tags_from_filename" =>
    /\ name_lookup(fname) = FirstNameEntry(fname)
    /\ extension_lookup(fname) = ExtensionEntry(fname)
    /\ ftags = name_lookup(fname) \cup extension_lookup(fname)

C28_Witness ==
  /\ api = "tags_from_filename"
  /\ fname = B(<<"R","E","A","D","M","E",".","D","o","c","k","e","r","f","i","l","e">>)
  /\ ftags = {"plain-text", "text"}

TagRank(t) == CHOOSE i \in 1..Len(TagOrder) : TagOrder[i] = t

\* The line is the JSON array of the tags of the set, each once, in
\* ascending order: [ "t1" , "t2" ... ].
IsSortedJsonArrayOf(line, tags) ==
  LET n == Cardinality(tags)
      item(k) == line[4 * k - 1]
  IN  /\ Len(line) = 4 * n + 1
      /\ line[1] = "[" /\ line[Len(line)] = "]"
      /\ \A k \in 1..n : line[4 * k - 2] = Quote /\ line[4 * k] = Quote
      /\ \A k \in 1..(n - 1) : line[4 * k + 1] = ","
      /\ {item(k) : k \in 1..n} = tags
      /\ \A k \in 1..(n - 1) : TagRank(item(k)) < TagRank(item(k + 1))

\* C26: the front end exits non-zero with nothing on standard output when
\* classification fails (a message goes to the diagnostic stream) or the
\* tag set is empty; otherwise it prints the tags once, sorted, as a JSON
\* array of strings and exits with status 0.
C26_CliExitAndOutput ==
  api = "main" /\ from_utf8(entry.path).some =>
    LET r == IF cli.filename_only THEN Ok(tags_from_filename(entry.path))
             ELSE tags_from_path(entry).res
    IN  IF ~r.ok \/ r.v = {}
        THEN /\ cli.exit.some /\ cli.exit.v # 0
             /\ cli.stdout = << >>
             /\ ~r.ok => cli.stderr # << >>
        ELSE /\ cli.exit = Some(0)
             /\ Len(cli.stdout) = 1
             /\ IsSortedJsonArrayOf(cli.stdout[1], r.v)
             /\ cli.stderr = << >>

C26_Witness ==
  /\ api = "main" /\ ~cli.filename_only /\ entry.kind = "file" /\ entry.io = "ok"
  /\ entry.path = B(<<"s","c","r","i","p","t",".","P","Y">>)
  /\ entry.mode = 7 * 64 + 5 * 8 + 5
  /\ cli.exit = Some(0)
  /\ cli.stdout = << << "[", Quote, "executable", Quote, ",", Quote, "file", Quote, ",",
                        Quote, "python", Quote, ",", Quote, "text", Quote, "]" >> >>

\* What the call returns when it runs alone.
AloneResult(c) ==
  IF c.fn = "tags_from_path" THEN tags_from_path(c.e).res ELSE identify(c.cfg, c.e).res

\* C27: under every interleaving of the steps of several tags_from_path /
\* identify calls on an unchanging filesystem, each call that has returned
\* returned the result it returns when run alone, and every static lookup
\* table that has been initialised holds its one content.
C27_NoInterference ==
  api = "concurrent" =>
    /\ \A i \in DOMAIN calls :
         calls[i].pc = "done" => calls[i].res = AloneResult(calls[i])
    /\ statics["TYPE_TAGS"].some => statics["TYPE_TAGS"].v = TYPE_TAGS
    /\ statics["MODE_TAGS"].some => statics["MODE_TAGS"].v = MODE_TAGS
    /\ statics["ENCODING_TAGS"].some => statics["ENCODING_TAGS"].v = ENCODING_TAGS
    /\ statics["INTERPRETERS"].some => statics["INTERPRETERS"].v = INTERPRETERS
    /\ statics["NAME_TAGS"].some => statics["NAME_TAGS"].v = NAME_TAGS
    /\ statics["EXTENSION_TAGS"].some => statics["EXTENSION_TAGS"].v = EXTENSION_TAGS
    /\ statics["EXTENSIONS_NEED_BINARY_CHECK_TAGS"].some =>
         statics["EXTENSIONS_NEED_BINARY_CHECK_TAGS"].v = EXTENSIONS_NEED_BINARY_CHECK_TAGS

\* Two calls whose steps were interleaved have both returned: tags_from_path
\* on the executable python script and identify with a custom mapping on
\* Dockerfile.gz.
C27_Witness ==
  /\ api = "concurrent"
  /\ calls[1].fn = "tags_from_path" /\ calls[1].pc = "done" /\ calls[1].raced
  /\ calls[1].res = Ok({FILE, EXECUTABLE, "python", "python3", TEXT})
  /\ calls[2].fn = "identify" /\ calls[2].pc = "done" /\ calls[2].raced
  /\ calls[2].res = Ok({FILE, NON_EXECUTABLE, "custom", BINARY})
  /\ statics["INTERPRETERS"].some
  /\ statics["NAME_TAGS"].some
  /\ statics["ENCODING_TAGS"].some

\* What may follow the first line of a stream.
Tails ==
  { << >>, B(<<"x">>), ShebangMarker \o B(<<"s","h">>),
    << LF >> \o ShebangMarker \o B(<<"/","b","i","n","/","s","h">>) \o << LF >>,
    << NUL >>, << 255 >>, << CR, LF >> }

NoLineFeed(data) == \A i \in 1..Len(data) : data[i] # LF

\* C29: the result of parse_shebang depends only on the bytes before the
\* first line feed: for a stream L without a line feed and a tail R,
\* parse_shebang returns for L+LF+R and for L+CR+LF+R what it returned for
\* L; a stream whose first line is empty (it starts with LF or with CR LF)
\* yields the empty command whatever follows.
C29_OnlyFirstLine ==
  api = "parse_shebang" /\ reader.readOk =>
    /\ NoLineFeed(reader.data) =>
         \A R \in Tails :
           /\ parse_shebang(Reader(reader.data \o << LF >> \o R, TRUE)) = shebang
           /\ parse_shebang(Reader(reader.data \o << CR, LF >> \o R, TRUE)) = shebang
    /\ (Len(reader.data) >= 1 /\ reader.data[1] = LF) => shebang = Ok(<< >>)
    /\ (Len(reader.data) >= 2 /\ reader.data[1] = CR /\ reader.data[2] = LF) =>
         shebang = Ok(<< >>)
    /\ \A R \in Tails :
         /\ parse_shebang(Reader(<< LF >> \o R, TRUE)) = Ok(<< >>)
         /\ parse_shebang(Reader(<< CR, LF >> \o R, TRUE)) = Ok(<< >>)

\* parse_shebang returned python3 for a stream without a line feed that
\* ends with a carriage return.
C29_Witness ==
  /\ api = "parse_shebang" /\ reader.readOk
  /\ reader.data = ShebangMarker \o UsrBinEnv \o B(<<" ","p","y","t","h","o","n","3">>)
                     \o << CR >>
  /\ shebang = Ok(<< B(<<"p","y","t","h","o","n","3">>) >>)
  /\ parse_shebang(Reader(reader.data \o << CR, LF >> \o ShebangMarker \o B(<<"s","h">>),
                          TRUE)) = shebang

\* Each of the first min(n, 1024) bytes of the entry's content is a text byte.
TextContent ==
  \A i \in 1..(IF Len(entry.content) < 1024 THEN Len(entry.content) ELSE 1024) :
    TextByte(entry.content[i])

\* C30: with content analysis enabled, every tag set tags_from_path /
\* identify return for a regular file holds text or binary: when the tags of
\* the filename/shebang step hold an encoding tag the result holds exactly
\* those encoding tags and the content is not read; otherwise the result
\* holds exactly one encoding tag, text when the first 1024 bytes of the
\* content are text bytes and binary when they are not.
C30_EncodingTagPresent ==
  /\ Classified /\ entry.kind = "file" /\ out.res.ok
  /\ (api = "tags_from_path" \/ ~cfg.skip_content_analysis)
  =>
    /\ out.res.v \cap {TEXT, BINARY} # {}
    /\ out.step.some
    /\ IF out.step.v.tags \cap {TEXT, BINARY} # {}
       THEN /\ out.res.v \cap {TEXT, BINARY} = out.step.v.tags \cap {TEXT, BINARY}
            /\ ~ReadsContent
       ELSE /\ out.res.v \cap {TEXT, BINARY} = {IF TextContent THEN TEXT ELSE BINARY}
            /\ ReadsContent

\* tags_from_path on script.plist holding one NUL byte: the extension is in
\* the binary-check-only table and the sniffer adds binary.
C30_Witness ==
  /\ api = "tags_from_path" /\ entry.kind = "file" /\ entry.io = "ok"
  /\ entry.path = B(<<"s","c","r","i","p","t",".","p","l","i","s","t">>)
  /\ entry.content = << 0 >>
  /\ entry.mode = 6 * 64 + 4 * 8 + 4
  /\ out.step.some /\ out.step.v.tags = {"plist"}
  /\ out.res = Ok({FILE, NON_EXECUTABLE, "plist", BINARY})

====
